---- MODULE Spec2Model ----
(***************************************************************************)
(* A model of the JSON-to-CSV converter of src/main.py: the value          *)
(* flattener, the structure detector, the transposer, the key extractors,  *)
(* the header splitter and the conversion run of main()/json_to_csv().     *)
(*                                                                         *)
(* Python strings are sequences of one-character strings, so that keys can *)
(* be concatenated, split and compared as the code does.  A Python dict is *)
(* a sequence of <<key, value>> pairs with distinct keys, in insertion     *)
(* order.  A Python/JSON value is a tagged record.                         *)
(***************************************************************************)
EXTENDS Integers, Sequences, FiniteSets, TLC

(***************************************************************************)
(* Bounds of the input universe.                                           *)
(***************************************************************************)
MaxLen == 2
MaxData == 2
MaxDepth == 2

(***************************************************************************)
(* Python / JSON values.                                                   *)
(***************************************************************************)
Null == [t |-> "null"]
Bool(b) == [t |-> "bool", b |-> b]
Num(n) == [t |-> "num", n |-> n]
Str(s) == [t |-> "str", s |-> s]
Arr(e) == [t |-> "arr", e |-> e]
Obj(kv) == [t |-> "obj", kv |-> kv]

IsDict(v) == v.t = "obj"
IsList(v) == v.t = "arr"
EmptyStr == Str(<<>>)

(***************************************************************************)
(* Strings.                                                                *)
(***************************************************************************)
Dot == <<".">>
Digit == <<"0", "1", "2", "3", "4", "5", "6", "7", "8", "9">>

\* The characters of the model in code point order (str comparison).
CharOrder ==
    <<" ", "\"", "'", ",", ".", "0", "1", "2", "3", "4", "5", "6", "7", "8",
      "9", ":", "F", "N", "T", "[", "]", "a", "b", "e", "f", "l", "n", "o", "r",
      "s", "t", "u", "x", "{", "}">>

Ord(c) == CHOOSE i \in 1..Len(CharOrder) : CharOrder[i] = c

Range(s) == {s[i] : i \in 1..Len(s)}

MinOf(S) == CHOOSE x \in S : \A y \in S : x <= y

MaxOf(S) == CHOOSE x \in S : \A y \in S : x >= y

\* s <= t for Python str
StrLeq(s, t) ==
    LET n == IF Len(s) < Len(t) THEN Len(s) ELSE Len(t)
        diff == {i \in 1..n : s[i] # t[i]}
    IN  IF diff = {} THEN Len(s) <= Len(t)
        ELSE Ord(s[MinOf(diff)]) < Ord(t[MinOf(diff)])

RECURSIVE sorted(_)
sorted(S) ==
    IF S = {} THEN <<>>
    ELSE LET m == CHOOSE x \in S : \A y \in S : StrLeq(x, y)
         IN  <<m>> \o sorted(S \ {m})

RECURSIVE IntStr(_)
IntStr(n) ==
    IF n < 10 THEN <<Digit[n + 1]>>
    ELSE IntStr(n \div 10) \o <<Digit[(n % 10) + 1]>>

\* the position of the first "." of s, 0 when there is none
FirstDot(s) ==
    LET dots == {i \in 1..Len(s) : s[i] = "."}
    IN  IF dots = {} THEN 0 ELSE MinOf(dots)

(***************************************************************************)
(* Python dicts.                                                           *)
(***************************************************************************)
DictKeys(d) == [i \in 1..Len(d) |-> d[i][1]]

DictHas(d, k) == \E i \in 1..Len(d) : d[i][1] = k

DictGet(d, k, default) ==
    IF DictHas(d, k)
    THEN d[CHOOSE i \in 1..Len(d) : d[i][1] = k][2]
    ELSE default

DictSet(d, k, v) ==
    IF DictHas(d, k)
    THEN [i \in 1..Len(d) |-> IF d[i][1] = k THEN <<k, v>> ELSE d[i]]
    ELSE Append(d, <<k, v>>)

RECURSIVE DictUpdate(_, _, _)
DictUpdate(d, items, i) ==
    IF i > Len(items) THEN d
    ELSE DictUpdate(DictSet(d, items[i][1], items[i][2]), items, i + 1)

dict(items) == DictUpdate(<<>>, items, 1)

(***************************************************************************)
(* flatten_nested_data                                                     *)
(***************************************************************************)
RECURSIVE flatten_nested_data(_, _)
RECURSIVE FlattenDictItems(_, _, _)
RECURSIVE FlattenListItems(_, _, _)

FlattenDictItems(kv, parent_key, i) ==
    IF i > Len(kv) THEN <<>>
    ELSE LET key == kv[i][1]
             value == kv[i][2]
             new_key == IF parent_key # <<>> THEN parent_key \o Dot \o key
                        ELSE key
         IN  flatten_nested_data(value, new_key)
                 \o FlattenDictItems(kv, parent_key, i + 1)

FlattenListItems(e, parent_key, i) ==
    IF i > Len(e) THEN <<>>
    ELSE LET value == e[i]
             index == <<"[">> \o IntStr(i - 1) \o <<"]">>
             new_key == IF parent_key # <<>> THEN parent_key \o index
                        ELSE index
             item == IF IsDict(value) \/ IsList(value)
                     THEN flatten_nested_data(value, new_key)
                     ELSE << <<new_key, value>> >>
         IN  item \o FlattenListItems(e, parent_key, i + 1)

flatten_nested_data(obj, parent_key) ==
    dict(IF IsDict(obj) THEN FlattenDictItems(obj.kv, parent_key, 1)
         ELSE IF IsList(obj) THEN FlattenListItems(obj.e, parent_key, 1)
         ELSE << <<parent_key, obj>> >>)

(***************************************************************************)
(* detect_transpose_structure                                              *)
(***************************************************************************)
RECURSIVE has_nested_arrays(_)
has_nested_arrays(obj) ==
    \E i \in 1..Len(obj.kv) :
        LET value == obj.kv[i][2]
        IN  IF IsDict(value)
            THEN \/ \E j \in 1..Len(value.kv) : IsList(value.kv[j][2])
                 \/ has_nested_arrays(value)
            ELSE IsList(value)

\* detect_transpose_structure without the test of the length
detect_transpose_structure_AnyLength(data) ==
    IF data = <<>> THEN FALSE
    ELSE IF ~IsDict(data[1]) THEN FALSE
    ELSE has_nested_arrays(data[1])

detect_transpose_structure(data) ==
    IF Len(data) # 1 THEN FALSE
    ELSE IF ~IsDict(data[1]) THEN FALSE
    ELSE has_nested_arrays(data[1])

(***************************************************************************)
(* transpose_nested_arrays                                                 *)
(***************************************************************************)
RootGroup == <<"r", "o", "o", "t">>

\* acc = [single_values |-> dict, array_groups |-> dict of dicts], the two
\* nonlocal accumulators of extract_arrays; i is the position in obj.items()
RECURSIVE extract_arrays(_, _, _, _)
extract_arrays(obj, prefix, acc, i) ==
    IF i > Len(obj.kv) THEN acc
    ELSE LET key == obj.kv[i][1]
             value == obj.kv[i][2]
             full_key == IF prefix # <<>> THEN prefix \o Dot \o key ELSE key
             group_name == IF prefix # <<>> THEN prefix ELSE RootGroup
             group == DictGet(acc.array_groups, group_name, <<>>)
             next ==
                 IF IsDict(value)
                 THEN extract_arrays(value, full_key, acc, 1)
                 ELSE IF IsList(value)
                 THEN [acc EXCEPT !.array_groups =
                          DictSet(@, group_name, DictSet(group, key, value))]
                 ELSE [acc EXCEPT !.single_values = DictSet(@, full_key, value)]
         IN  extract_arrays(obj, prefix, next, i + 1)

\* the arrays of all groups as one sequence of <<field_name, array_values>>,
\* in the iteration order of lines 96-97
RECURSIVE GroupFields(_, _)
GroupFields(array_groups, g) ==
    IF g > Len(array_groups) THEN <<>>
    ELSE LET group_name == array_groups[g][1]
             arrays == array_groups[g][2]
             fields == [a \in 1..Len(arrays) |->
                           << IF group_name = RootGroup THEN arrays[a][1]
                              ELSE group_name \o Dot \o arrays[a][1],
                              arrays[a][2] >>]
         IN  fields \o GroupFields(array_groups, g + 1)

\* the row of index i (0-based), lines 89-106
TransposedRow(single_values, fields, i) ==
    LET singles == [s \in 1..Len(single_values) |->
                       << single_values[s][1],
                          IF i = 0 THEN single_values[s][2] ELSE EmptyStr >>]
        arrays == [f \in 1..Len(fields) |->
                      << fields[f][1],
                         IF i < Len(fields[f][2].e) THEN fields[f][2].e[i + 1]
                         ELSE EmptyStr >>]
    IN  Obj(dict(singles \o arrays))

\* the rows appended to result for one item, lines 50-108
TransposeItem(item) ==
    LET acc == extract_arrays(item, <<>>,
                   [single_values |-> <<>>, array_groups |-> <<>>], 1)
        fields == GroupFields(acc.array_groups, 1)
        max_length ==
            MaxOf({0} \cup {Len(fields[f][2].e) : f \in 1..Len(fields)})
    IN  IF max_length = 0 THEN <<item>>
        ELSE [i \in 1..max_length |->
                 TransposedRow(acc.single_values, fields, i - 1)]

RECURSIVE TransposeItems(_, _)
TransposeItems(data, n) ==
    IF n > Len(data) THEN <<>>
    ELSE TransposeItem(data[n]) \o TransposeItems(data, n + 1)

\* [raised |-> TRUE] when item.items() raises AttributeError on a non-dict
transpose_nested_arrays(data) ==
    IF data = <<>> \/ ~IsDict(data[1])
    THEN [raised |-> FALSE, result |-> data]
    ELSE IF \E n \in 1..Len(data) : ~IsDict(data[n])
    THEN [raised |-> TRUE, result |-> <<>>]
    ELSE [raised |-> FALSE, result |-> TransposeItems(data, 1)]

(***************************************************************************)
(* extract_all_keys_advanced, extract_all_keys                             *)
(***************************************************************************)
extract_all_keys_advanced(json_data) ==
    IF json_data = <<>> THEN <<>>
    ELSE LET all_keys ==
                 UNION {Range(DictKeys(flatten_nested_data(json_data[i], <<>>))) :
                     i \in {j \in 1..Len(json_data) : IsDict(json_data[j])}}
             first_item_keys ==
                 IF IsDict(json_data[1])
                 THEN DictKeys(flatten_nested_data(json_data[1], <<>>))
                 ELSE <<>>
             remaining_keys == sorted(all_keys \ Range(first_item_keys))
         IN  first_item_keys \o remaining_keys

extract_all_keys(json_data) ==
    IF json_data = <<>> THEN <<>>
    ELSE LET first_item_keys ==
                 IF IsDict(json_data[1]) THEN DictKeys(json_data[1].kv)
                 ELSE <<>>
             all_keys ==
                 UNION {Range(DictKeys(json_data[i].kv)) :
                     i \in {j \in 1..Len(json_data) : IsDict(json_data[j])}}
             remaining_keys == sorted(all_keys \ Range(first_item_keys))
         IN  first_item_keys \o remaining_keys

(***************************************************************************)
(* str(), json.dumps(), flatten_value                                      *)
(***************************************************************************)
RECURSIVE Join(_, _, _)
Join(parts, sep, i) ==
    IF i > Len(parts) THEN <<>>
    ELSE IF i = Len(parts) THEN parts[i]
    ELSE parts[i] \o sep \o Join(parts, sep, i + 1)

\* repr(value); the strings of the model need no escaping
RECURSIVE PyRepr(_)
PyRepr(value) ==
    CASE value.t = "null" -> <<"N", "o", "n", "e">>
      [] value.t = "bool" -> IF value.b THEN <<"T", "r", "u", "e">>
                             ELSE <<"F", "a", "l", "s", "e">>
      [] value.t = "num" -> IntStr(value.n)
      [] value.t = "str" -> <<"'">> \o value.s \o <<"'">>
      [] value.t = "arr" ->
            <<"[">> \o Join([i \in 1..Len(value.e) |-> PyRepr(value.e[i])],
                            <<",", " ">>, 1) \o <<"]">>
      [] value.t = "obj" ->
            <<"{">> \o Join([i \in 1..Len(value.kv) |->
                                <<"'">> \o value.kv[i][1] \o <<"'", ":", " ">>
                                    \o PyRepr(value.kv[i][2])],
                            <<",", " ">>, 1) \o <<"}">>

\* str(value)
PyStr(value) == IF value.t = "str" THEN value.s ELSE PyRepr(value)

\* json.dumps(value, ensure_ascii=False)
RECURSIVE JsonDumps(_)
JsonDumps(value) ==
    CASE value.t = "null" -> <<"n", "u", "l", "l">>
      [] value.t = "bool" -> IF value.b THEN <<"t", "r", "u", "e">>
                             ELSE <<"f", "a", "l", "s", "e">>
      [] value.t = "num" -> IntStr(value.n)
      [] value.t = "str" -> <<"\"">> \o value.s \o <<"\"">>
      [] value.t = "arr" ->
            <<"[">> \o Join([i \in 1..Len(value.e) |-> JsonDumps(value.e[i])],
                            <<",", " ">>, 1) \o <<"]">>
      [] value.t = "obj" ->
            <<"{">> \o Join([i \in 1..Len(value.kv) |->
                                <<"\"">> \o value.kv[i][1] \o <<"\"", ":", " ">>
                                    \o JsonDumps(value.kv[i][2])],
                            <<",", " ">>, 1) \o <<"}">>

flatten_value(value) ==
    IF value = Null THEN <<>>
    ELSE IF IsDict(value) \/ IsList(value) THEN JsonDumps(value)
    ELSE PyStr(value)

(***************************************************************************)
(* create_hierarchical_headers                                             *)
(***************************************************************************)
\* header.split('.') without the limit of one split
SplitHeader_EveryDot(header) ==
    LET d == FirstDot(header)
        tail == SubSeq(header, d + 1, Len(header))
        d2 == FirstDot(tail)
    IN  IF d # 0
        THEN <<SubSeq(header, 1, d - 1),
               IF d2 # 0 THEN SubSeq(tail, 1, d2 - 1) ELSE tail>>
        ELSE <<header, <<>>>>

\* header.split('.', 1) when '.' in header, else (header, "")
SplitHeader(header) ==
    LET d == FirstDot(header)
    IN  IF d # 0
        THEN <<SubSeq(header, 1, d - 1), SubSeq(header, d + 1, Len(header))>>
        ELSE <<header, <<>>>>

create_hierarchical_headers(headers) ==
    << [i \in 1..Len(headers) |-> SplitHeader(headers[i])[1]],
       [i \in 1..Len(headers) |-> SplitHeader(headers[i])[2]] >>

(***************************************************************************)
(* The inputs: the JSON documents the converter is run on.                 *)
(***************************************************************************)
KA == <<"a">>
KB == <<"b">>
KAB == <<"a", ".", "b">>
KEmpty == <<>>
Keys == {KA, KB, KAB, RootGroup, KEmpty}
WrapKeys == {KA, RootGroup}

SeqsUpTo(S, n) == UNION {[1..m -> S] : m \in 0..n}

Scalars == {Null, Num(1), Str(<<"x">>)}
Arrays ==
    {Arr(e) : e \in SeqsUpTo({Null, Num(1)}, MaxLen)}
        \cup {Arr(<<Obj(<< <<KA, Num(1)>> >>)>>), Arr(<<Arr(<<Num(1)>>)>>)}
Leaves == Scalars \cup Arrays

\* objects of one field, nested d levels deep
RECURSIVE Nested(_)
Nested(d) ==
    IF d = 0 THEN {Obj(<< <<k, v>> >>) : k \in Keys, v \in Leaves}
    ELSE {Obj(<< <<k, o>> >>) : k \in WrapKeys, o \in Nested(d - 1)}

\* objects of two fields
PairValues ==
    {Null, Num(1)}
        \cup {Arr([i \in 1..n |-> Num(1)]) : n \in 1..MaxLen}
        \cup {Obj(<< <<k, v>> >>) :
                 k \in {KA, KB}, v \in {Str(<<"x">>), Arr(<<Null>>)}}
Pairs ==
    {Obj(<< <<k[1], v1>>, <<k[2], v2>> >>) :
        k \in {kk \in Keys \X Keys : kk[1] # kk[2]},
        v1 \in PairValues, v2 \in PairValues}

Records ==
    {Obj(<<>>)} \cup UNION {Nested(d) : d \in 0..MaxDepth} \cup Pairs

\* the elements of the arrays of several elements
Elements ==
    { Num(1), Arr(<<Num(1)>>), Obj(<<>>),
      Obj(<< <<KB, Num(1)>>, <<KA, Null>> >>),
      Obj(<< <<RootGroup, Bool(TRUE)>>, <<KAB, Arr(<<Num(1), Null>>)>> >>),
      Obj(<< <<KA, Obj(<< <<KB, Null>> >>)>>, <<KEmpty, Str(<<"x">>)>> >>) }

Documents ==
    {Arr(<<>>), Obj(<<>>), Num(1)}
        \cup {Arr(<<r>>) : r \in Records}
        \cup {Arr(e) : e \in UNION {[1..n -> Elements] : n \in 2..MaxData}}

(***************************************************************************)
(* The conversion run: main() and json_to_csv().                           *)
(***************************************************************************)
VARIABLES
    pc,               \* the position of the run
    file,             \* the input file: "missing", "invalid" or "ok"
    json,             \* the JSON value the input file holds
    csv_file_path,    \* "given" with --output, else "none"
    flatten_arrays,   \* --flatten
    transpose,        \* --transpose, or set by the auto-detection
    data,             \* json.load's result
    detected,         \* the value detect_transpose_structure returned
    processed_data,
    headers,
    csv,              \* the output file: opened for writing?, rows written
    idx,              \* the position of the row loop in processed_data
    error,            \* the exception that ended the run
    exit_code

vars == <<pc, file, json, csv_file_path, flatten_arrays, transpose, data,
          detected, processed_data, headers, csv, idx, error, exit_code>>

Init ==
    /\ pc = "main"
    /\ file \in {"missing", "invalid", "ok"}
    /\ json \in IF file = "ok" THEN Documents ELSE {Null}
    /\ csv_file_path \in {"given", "none"}
    /\ flatten_arrays \in BOOLEAN
    /\ transpose \in BOOLEAN
    /\ data = Null
    /\ detected = FALSE
    /\ processed_data = <<>>
    /\ headers = <<>>
    /\ csv = [opened |-> FALSE, rows |-> <<>>]
    /\ idx = 0
    /\ error = "none"
    /\ exit_code = -1

\* an exception reaches main()'s except clause, or main() calls sys.exit(1)
Fail(kind) ==
    /\ pc' = "exit"
    /\ error' = kind
    /\ exit_code' = 1

\* json_to_csv returns and main() ends
Return ==
    /\ pc' = "exit"
    /\ exit_code' = 0
    /\ UNCHANGED error

\* main(): the mutually exclusive options
Main ==
    /\ pc = "main"
    /\ IF flatten_arrays /\ transpose
       THEN Fail("MutuallyExclusiveOptions")
       ELSE pc' = "exists" /\ UNCHANGED <<error, exit_code>>
    /\ UNCHANGED <<file, json, csv_file_path, flatten_arrays, transpose, data,
                   detected, processed_data, headers, csv, idx>>

\* json_to_csv: the input file must exist
CheckExists ==
    /\ pc = "exists"
    /\ IF file = "missing"
       THEN Fail("FileNotFound")
       ELSE pc' = "output" /\ UNCHANGED <<error, exit_code>>
    /\ UNCHANGED <<file, json, csv_file_path, flatten_arrays, transpose, data,
                   detected, processed_data, headers, csv, idx>>

\* json_to_csv: the default output path; Path.with_suffix raises ValueError
\* for a suffix that does not start with a dot
DefaultOutput ==
    /\ pc = "output"
    /\ IF csv_file_path = "none" /\ (transpose \/ flatten_arrays)
       THEN Fail("ValueError") /\ UNCHANGED csv_file_path
       ELSE /\ pc' = "load"
            /\ csv_file_path' = "given"
            /\ UNCHANGED <<error, exit_code>>
    /\ UNCHANGED <<file, json, flatten_arrays, transpose, data, detected,
                   processed_data, headers, csv, idx>>

\* json_to_csv: json.load
LoadJson ==
    /\ pc = "load"
    /\ IF file = "invalid"
       THEN Fail("InvalidJson") /\ UNCHANGED data
       ELSE pc' = "validate" /\ data' = json /\ UNCHANGED <<error, exit_code>>
    /\ UNCHANGED <<file, json, csv_file_path, flatten_arrays, transpose,
                   detected, processed_data, headers, csv, idx>>

\* json_to_csv: the data must be a list; an empty list gives an empty file
Validate ==
    /\ pc = "validate"
    /\ IF ~IsList(data)
       THEN Fail("InvalidTopLevelShape") /\ UNCHANGED csv
       ELSE IF data.e = <<>>
       THEN Return /\ csv' = [opened |-> TRUE, rows |-> <<>>]
       ELSE pc' = "detect" /\ UNCHANGED <<csv, error, exit_code>>
    /\ UNCHANGED <<file, json, csv_file_path, flatten_arrays, transpose, data,
                   detected, processed_data, headers, idx>>

\* json_to_csv: the auto-detection of the transposition
Detect ==
    /\ pc = "detect"
    /\ detected' = detect_transpose_structure(data.e)
    /\ transpose' = (transpose \/ (detected' /\ ~flatten_arrays /\ ~transpose))
    /\ pc' = "transform"
    /\ UNCHANGED <<file, json, csv_file_path, flatten_arrays, data,
                   processed_data, headers, csv, idx, error, exit_code>>

\* json_to_csv: the data and the headers of the mode
Transform ==
    /\ pc = "transform"
    /\ IF transpose
       THEN LET t == transpose_nested_arrays(data.e)
            IN  IF t.raised
                THEN Fail("AttributeError")
                     /\ UNCHANGED <<processed_data, headers>>
                ELSE /\ processed_data' = t.result
                     /\ headers' = extract_all_keys(t.result)
                     /\ pc' = "check_headers"
                     /\ UNCHANGED <<error, exit_code>>
       ELSE /\ processed_data' = data.e
            /\ headers' = IF flatten_arrays
                          THEN extract_all_keys_advanced(data.e)
                          ELSE extract_all_keys(data.e)
            /\ pc' = "check_headers"
            /\ UNCHANGED <<error, exit_code>>
    /\ UNCHANGED <<file, json, csv_file_path, flatten_arrays, transpose, data,
                   detected, csv, idx>>

\* json_to_csv without the test of the headers
CheckHeaders_Always ==
    /\ pc = "check_headers"
    /\ pc' = "open"
    /\ UNCHANGED <<file, json, csv_file_path, flatten_arrays, transpose, data,
                   detected, processed_data, headers, csv, idx, error,
                   exit_code>>

\* json_to_csv: without headers nothing is written
CheckHeaders ==
    /\ pc = "check_headers"
    /\ IF headers = <<>>
       THEN Return
       ELSE pc' = "open" /\ UNCHANGED <<error, exit_code>>
    /\ UNCHANGED <<file, json, csv_file_path, flatten_arrays, transpose, data,
                   detected, processed_data, headers, csv, idx>>

\* the output file is opened and the header row(s) written
OpenCsv ==
    /\ pc = "open"
    /\ csv' = [opened |-> TRUE,
               rows |-> IF transpose
                        THEN LET h == create_hierarchical_headers(headers)
                             IN  <<h[1], h[2]>>
                        ELSE <<headers>>]
    /\ idx' = 1
    /\ pc' = "rows"
    /\ UNCHANGED <<file, json, csv_file_path, flatten_arrays, transpose, data,
                   detected, processed_data, headers, error, exit_code>>

\* the row of a dict item in the flat write
FlatRow(item) ==
    IF flatten_arrays
    THEN LET flattened_item == flatten_nested_data(item, <<>>)
         IN  [h \in 1..Len(headers) |->
                 PyStr(DictGet(flattened_item, headers[h], EmptyStr))]
    ELSE [h \in 1..Len(headers) |->
             flatten_value(DictGet(item.kv, headers[h], Null))]

\* the row of an item in write_hierarchical_csv
HierarchicalRow(item) ==
    [h \in 1..Len(headers) |-> PyStr(DictGet(item.kv, headers[h], EmptyStr))]

\* one iteration of the row loop
WriteRow ==
    /\ pc = "rows"
    /\ idx <= Len(processed_data)
    /\ LET item == processed_data[idx]
       IN  IF transpose
           THEN IF IsDict(item)
                THEN /\ csv' = [csv EXCEPT !.rows =
                                           Append(@, HierarchicalRow(item))]
                     /\ idx' = idx + 1
                     /\ UNCHANGED <<pc, error, exit_code>>
                ELSE Fail("AttributeError") /\ UNCHANGED <<csv, idx>>
           ELSE /\ csv' = IF IsDict(item)
                          THEN [csv EXCEPT !.rows = Append(@, FlatRow(item))]
                          ELSE csv
                /\ idx' = idx + 1
                /\ UNCHANGED <<pc, error, exit_code>>
    /\ UNCHANGED <<file, json, csv_file_path, flatten_arrays, transpose, data,
                   detected, processed_data, headers>>

\* the row loop ends, the file is closed and json_to_csv returns
Finish ==
    /\ pc = "rows"
    /\ idx > Len(processed_data)
    /\ Return
    /\ UNCHANGED <<file, json, csv_file_path, flatten_arrays, transpose, data,
                   detected, processed_data, headers, csv, idx>>

Next ==
    \/ Main
    \/ CheckExists
    \/ DefaultOutput
    \/ LoadJson
    \/ Validate
    \/ Detect
    \/ Transform
    \/ CheckHeaders
    \/ OpenCsv
    \/ WriteRow
    \/ Finish

Spec == Init /\ [][Next]_vars

(***************************************************************************)
(* What the specification says, stated independently of the code above.    *)
(***************************************************************************)
Missing == [t |-> "missing"]

ObjectElements(d) == SelectSeq(d, IsDict)

AfterTransform == pc \in {"check_headers", "open", "rows"}

\* the array-valued fields of obj at any object nesting depth, each as
\* <<path, array>> where path is the sequence of the object keys leading to it
RECURSIVE ArrayFields(_, _)
ArrayFields(obj, path) ==
    UNION { LET k == obj.kv[i][1]
                v == obj.kv[i][2]
            IN  IF IsList(v) THEN {<<Append(path, k), v>>}
                ELSE IF IsDict(v) THEN ArrayFields(v, Append(path, k))
                ELSE {} : i \in 1..Len(obj.kv) }

\* the full dotted path of a field
DottedName(path) == Join(path, Dot, 1)

\* the path of the object a field lives in
Container(path) == SubSeq(path, 1, Len(path) - 1)

MaxArrayLen(obj) ==
    MaxOf({0} \cup {Len(f[2].e) : f \in ArrayFields(obj, <<>>)})

ExpectedRowCount(obj) ==
    IF MaxArrayLen(obj) = 0 THEN 1 ELSE MaxArrayLen(obj)

RECURSIVE ExpectedRowsBefore(_, _)
ExpectedRowsBefore(d, n) ==
    IF n = 0 THEN 0
    ELSE ExpectedRowsBefore(d, n - 1) + ExpectedRowCount(d[n])

\* the scalar positions of a value: the nesting paths (object keys and array
\* indices) that lead to a scalar
RECURSIVE ScalarPaths(_, _)
ScalarPaths(v, path) ==
    IF IsDict(v)
    THEN UNION {ScalarPaths(v.kv[i][2], Append(path, <<"key", v.kv[i][1]>>)) :
                   i \in 1..Len(v.kv)}
    ELSE IF IsList(v)
    THEN UNION {ScalarPaths(v.e[i], Append(path, <<"index", IntStr(i - 1)>>)) :
                   i \in 1..Len(v.e)}
    ELSE {path}

\* an array among the direct values of obj or among the values of an object
\* that is a direct value of obj
ShallowArray(obj) ==
    \E i \in 1..Len(obj.kv) :
        LET v == obj.kv[i][2]
        IN  \/ IsList(v)
            \/ IsDict(v) /\ \E j \in 1..Len(v.kv) : IsList(v.kv[j][2])

NoDuplicates(s) == \A i, j \in 1..Len(s) : i # j => s[i] # s[j]

StrictlyAscending(s) ==
    \A i, j \in 1..Len(s) : i < j => s[i] # s[j] /\ StrLeq(s[i], s[j])

\* the data rows of the output file (none when it was never written)
DataRows == IF csv.rows = <<>> THEN 0 ELSE Len(csv.rows) - 1

\* the key built back from the two header tiers
Rebuild(top, sub) == IF sub # <<>> THEN top \o Dot \o sub ELSE top

\* the keys of a record in the mode of the run
ModeKeys(r) ==
    IF flatten_arrays THEN DictKeys(flatten_nested_data(r, <<>>))
    ELSE DictKeys(r.kv)

\* the value of a record at a header in the mode of the run
ModeValue(r, key) ==
    IF flatten_arrays THEN DictGet(flatten_nested_data(r, <<>>), key, Missing)
    ELSE DictGet(r.kv, key, Missing)

(***************************************************************************)
(* The claims.                                                             *)
(***************************************************************************)

\* C1: for every non-empty input array, a run in plain or flatten mode ends
\* with as many data rows in the output as the array has object elements.
C1_RowsEqualObjects ==
    (/\ pc = "exit"
     /\ file = "ok"
     /\ IsList(json)
     /\ json.e # <<>>
     /\ ~transpose)
        => DataRows = Len(ObjectElements(json.e))

\* C2: in plain and flatten mode the header list has no duplicates, is the
\* union of the keys of the object elements, starts with the keys of the
\* first record in insertion order and goes on with the keys of the later
\* records only, in ascending order.
C2_HeaderOrder ==
    (AfterTransform /\ ~transpose) =>
        LET objs == ObjectElements(data.e)
            first == IF objs = <<>> THEN <<>> ELSE ModeKeys(objs[1])
            union == UNION {Range(ModeKeys(objs[i])) : i \in 1..Len(objs)}
            rest == SubSeq(headers, Len(first) + 1, Len(headers))
        IN  /\ NoDuplicates(headers)
            /\ Range(headers) = union
            /\ Len(headers) >= Len(first)
            /\ SubSeq(headers, 1, Len(first)) = first
            /\ Range(rest) = union \ Range(first)
            /\ StrictlyAscending(rest)

\* C3: transpose_nested_arrays emits for every object record as many rows as
\* its longest array-valued field has elements (one unchanged row when that
\* is zero), and in row i every array field holds its element i, or the
\* empty string past its end.
C3_TransposeRows ==
    (AfterTransform /\ transpose /\ \A n \in 1..Len(data.e) : IsDict(data.e[n]))
        =>
        /\ Len(processed_data) = ExpectedRowsBefore(data.e, Len(data.e))
        /\ \A n \in 1..Len(data.e) :
              LET r == data.e[n]
                  first == ExpectedRowsBefore(data.e, n - 1) + 1
              IN  IF MaxArrayLen(r) = 0
                  THEN processed_data[first] = r
                  ELSE \A i \in 0..(MaxArrayLen(r) - 1) :
                          \A f \in ArrayFields(r, <<>>) :
                              DictGet(processed_data[first + i].kv,
                                      DottedName(f[1]), Missing)
                                  = IF i < Len(f[2].e) THEN f[2].e[i + 1]
                                    ELSE EmptyStr

\* C4: every flattened key, split into (top, sub) by
\* create_hierarchical_headers, is built back by top + "." + sub when sub is
\* not empty and by top alone when sub is empty.
C4_SplitRoundTrip ==
    (AfterTransform /\ flatten_arrays) =>
        LET h == create_hierarchical_headers(headers)
        IN  \A i \in 1..Len(headers) : Rebuild(h[1][i], h[2][i]) = headers[i]

\* C4, amended: every flattened key, split into (top, sub), is top + "." +
\* sub when sub is not empty; when sub is empty the key is top, or top
\* followed by a single ".".
C4_SplitRoundTripAmended ==
    (AfterTransform /\ flatten_arrays) =>
        LET h == create_hierarchical_headers(headers)
        IN  \A i \in 1..Len(headers) :
                IF h[2][i] # <<>>
                THEN h[1][i] \o Dot \o h[2][i] = headers[i]
                ELSE headers[i] \in {h[1][i], h[1][i] \o Dot}

C4_Witness ==
    /\ pc = "check_headers"
    /\ flatten_arrays
    /\ \E i \in 1..Len(headers) :
          create_hierarchical_headers(headers)[2][i] # <<>>

\* C5: in every mode a non-object element of the input array is skipped and
\* the run ends without an error, with exit code zero.
C5_NonObjectRecoverable ==
    (/\ pc = "exit"
     /\ IsList(data)
     /\ \E n \in 1..Len(data.e) : ~IsDict(data.e[n])
     /\ ~(flatten_arrays /\ transpose))
        => exit_code = 0 /\ error = "none"

\* C6: the output file is opened for writing only after the key extraction
\* has produced a header set.
C6_OpenOnlyAfterHeaders ==
    csv.opened => headers # <<>>

\* C6, amended: the output file is opened for writing only after the key
\* extraction has produced a header set, or for an empty input array (which
\* gives an empty file without key extraction); a run that ends in a fatal
\* error before writing never opens it.
C6_OpenAfterHeadersOrEmpty ==
    /\ csv.opened => headers # <<>> \/ (IsList(data) /\ data.e = <<>>)
    /\ error \in {"MutuallyExclusiveOptions", "FileNotFound", "InvalidJson",
                  "InvalidTopLevelShape"} => ~csv.opened

C6_Witness ==
    /\ pc = "rows"
    /\ csv.opened
    /\ headers # <<>>

\* C7: flatten_nested_data gives one entry for each scalar position of a
\* record: two different nesting paths never give the same key.
C7_FlattenInjective ==
    (AfterTransform /\ flatten_arrays) =>
        \A n \in 1..Len(data.e) :
            IsDict(data.e[n]) =>
                Len(flatten_nested_data(data.e[n], <<>>))
                    = Cardinality(ScalarPaths(data.e[n], <<>>))

C9_NullIsEmpty ==
    (pc \in {"rows", "exit"} /\ ~transpose /\ headers # <<>> /\ csv.opened) =>
        LET items == ObjectElements(SubSeq(processed_data, 1, idx - 1))
        IN  /\ Len(csv.rows) = Len(items) + 1
            /\ \A j \in 1..Len(items) :
                  \A h \in 1..Len(headers) :
                      ModeValue(items[j], headers[h]) = Null
                          => csv.rows[j + 1][h] = <<>>

\* C10: array fields under different containing objects of a record never
\* share a group, and each is a column of its own in every emitted row,
\* named by the dotted path of its containing object plus its key.
C10_DistinctColumns ==
    (/\ AfterTransform
     /\ transpose
     /\ Len(data.e) = 1
     /\ IsDict(data.e[1])
     /\ MaxArrayLen(data.e[1]) > 0)
        =>
        LET fields == ArrayFields(data.e[1], <<>>)
            names == {DottedName(f[1]) : f \in fields}
            acc == extract_arrays(data.e[1], <<>>,
                       [single_values |-> <<>>, array_groups |-> <<>>], 1)
        IN  /\ Len(acc.array_groups)
                  = Cardinality({Container(f[1]) : f \in fields})
            /\ Cardinality(names) = Cardinality(fields)
            /\ \A i \in 1..Len(processed_data) :
                  \A f \in fields :
                      DictHas(processed_data[i].kv, DottedName(f[1]))

====
